---- MODULE Spec2Model ----
(***************************************************************************)
(* Argument Clinic backend: the per-session conversation engine            *)
(* (services/argument_clinic_graph.py) driven by GraphSession.process_input *)
(* and WebSocketHandler (routes/websocket.py).                             *)
(*                                                                         *)
(* One GraphSession is modelled in full, the GraphSession objects of other *)
(* connections in the variable peer.  A coroutine is suspended only at an  *)
(* await, and every node of the graph mutates the context only after its   *)
(* last await, so one graph_context.next() call is one atomic step whose   *)
(* outcome (the values the collaborators return, or the exception one of   *)
(* them raises) is chosen nondeterministically.  graph_context.next() runs *)
(* the pending node and makes the node it returns the pending one; a node  *)
(* that raises leaves the pending node as it was.                          *)
(*                                                                         *)
(* Spec:           several coroutines call process_input concurrently.     *)
(* SpecConnection: one connection, whose handler takes one message at a    *)
(*                 time, may fail in a collaborator, and may disconnect.   *)
(* SpecManager:    the SessionManager alone: sessions, their timer tasks,  *)
(*                 and time passing in minutes.                            *)
(* SpecManagerFair: the same, a timer task whose sleep is over does run.   *)
(* SpecHandler:    one connection with its session timer running and the   *)
(*                 messages of the client waiting in the websocket.        *)
(* SpecMessages:   one connection, messages of every kind, no time passing. *)
(* SpecSessions:   two connections and their sessions, timers running.     *)
(* SpecActivity:   one connection, messages of every kind while time passes. *)
(***************************************************************************)
EXTENDS Integers, Sequences, FiniteSets, TLC

VARIABLES
    state,          \* GraphSession.state: the ArgumentClinicContext
    next_node,      \* graph_context's pending node (the node the next next() runs)
    is_processing,  \* GraphSession.is_processing
    metrics,        \* performance.metrics: success_count, error_count
    task,           \* the process_input callers: position, locals, result
    connection,     \* the websocket of handle_connection: "open" or "closed"
    active_sessions, \* SessionManager.active_sessions: the registered session ids
    session_timeouts, \* SessionManager.session_timeouts: session id -> timer task
    timers,         \* the pending _cleanup_after_timeout tasks: task -> session id,
                    \* minutes of sleep left
    issued,         \* the session ids uuid4 has given out
    idle_minutes,   \* per registered session: minutes since it was created or
                    \* reset_timeout was last called on it
    age_minutes,    \* per registered session: minutes since GraphSession.created_at
    last_call,      \* the SessionManager operation that ran last, its argument,
                    \* and whether the session was registered when it began
    inbox,          \* the messages the client has sent and the handler has not
                    \* received yet
    peer            \* the GraphSession objects create_session has made since:
                    \* session id -> state, pending node, is_processing, and
                    \* the position of the process_input in flight on it

\* the SessionManager but for active_sessions, and the clocks
manager == <<session_timeouts, timers, issued, idle_minutes, age_minutes, last_call>>

vars == <<state, next_node, is_processing, metrics, task, connection,
          active_sessions, manager, inbox, peer>>

-----------------------------------------------------------------------------
(* Bounds of the model *)

\* inputs are accepted while conversation_history is shorter than this
MaxHistory == 2
\* the same, for the long conversations of SpecConnection
MaxConnHistory == 18
\* collaborators raise at most this many times in SpecConnection
MaxConnFailures == 1
\* collaborators raise at most this many times
MaxFailures == 1
\* the same two, for the connection of SpecHandler
MaxHandlerHistory == 2
MaxHandlerFailures == 1
\* the messages that may wait in the websocket
MaxInbox == 2

\* the concurrent callers of process_input
Tasks == {"t1", "t2"}

-----------------------------------------------------------------------------
(* Values *)

None == "<None>"

\* the id create_session gives the modelled session
SessionId == "s1"

\* the ids uuid4 may give out
SessionIds == {"s1", "s2"}

\* settings.max_session_minutes
max_session_minutes == 5

\* the timer tasks: never more pending ones than sessions, and one being made
TimerIds == 1..(Cardinality(SessionIds) + 1)

ARGUMENTATIVE == "argumentative"
TRANSACTIONAL == "transactional"
META == "meta"
CONFUSED == "confused"
UserIntent == {ARGUMENTATIVE, TRANSACTIONAL, META, CONFUSED}

Nodes == {"EntryNode", "WaitForInput", "ProcessUserInput",
          "SimpleContradictionNode", "ArgumentationNode",
          "MetaCommentaryNode", "ResolutionNode"}

\* the nodes that call the response generator
ArguerNodes == {"SimpleContradictionNode", "ArgumentationNode", "MetaCommentaryNode"}

\* the nodes that answer an input: each sets last_response
ResponseNodes == ArguerNodes \cup {"ResolutionNode"}

\* the user inputs of the model, with their characters
Texts == {"Yes it is", "Not an ARGUMENT"}

\* data.get("content", ""): the input of a message that has no content
NoContent == ""

Chars(text) ==
    CASE text = "Yes it is" -> <<"Y","e","s"," ","i","t"," ","i","s">>
      [] text = "Not an ARGUMENT" ->
            <<"N","o","t"," ","a","n"," ","A","R","G","U","M","E","N","T">>
      [] OTHER -> <<>>

UpperCase == <<"A","B","C","D","E","F","G","H","I","J","K","L","M",
               "N","O","P","Q","R","S","T","U","V","W","X","Y","Z">>
LowerCase == <<"a","b","c","d","e","f","g","h","i","j","k","l","m",
               "n","o","p","q","r","s","t","u","v","w","x","y","z">>

\* str.lower()
LowerChar(ch) ==
    IF \E i \in 1..Len(UpperCase) : UpperCase[i] = ch
    THEN LowerCase[CHOOSE i \in 1..Len(UpperCase) : UpperCase[i] = ch]
    ELSE ch
Lower(s) == [i \in 1..Len(s) |-> LowerChar(s[i])]

\* sub in s
Contains(s, sub) ==
    \E i \in 0..(Len(s) - Len(sub)) : SubSeq(s, i + 1, i + Len(sub)) = sub

ArgumentWord == <<"a","r","g","u","m","e","n","t">>

\* "argument" in user_input, the case of the letters kept
ArgumentInText ==
    [text \in Texts \cup {NoContent} |-> Contains(Chars(text), ArgumentWord)]

\* "argument" in user_input.lower(), for each input of the model
ArgumentInLower ==
    [text \in Texts \cup {NoContent} |-> Contains(Lower(Chars(text)), ArgumentWord)]

\* the processing times track_response_time may measure
ElapsedMs == {0, 1}

\* what the arguer agent may answer
ArguerReplies == {"No it isn't!"}

Greeting == "Good morning! Welcome to the Argument Clinic. How may I help you today?"
DefaultResponse == "Good morning! Welcome to the Argument Clinic."
AcceptanceMessage ==
    "Ah, thank you! Right, where were we? Oh yes, you were wrong about everything!"
DingMessage == "*DING!* I'm sorry, your time is up! That'll be five pounds please."
WaitMessage == "Please wait for the current response to complete."

\* ResolutionNode.run: responses
responses ==
    << "I'm sorry, but I can't continue without payment. That's five pounds for the argument.",
       "No, no, no! Five pounds first, then we can argue!",
       "I'm afraid the argument stops here until you pay the five pounds.",
       "Payment first! Five pounds, please. Then we can resume our disagreement.",
       "I won't argue with you until you've paid! Five pounds!" >>

\* ArgumentClinicContext(session_id=...)
ArgumentClinicContext ==
    [ conversation_history   |-> <<>>,
      turn_count             |-> 0,
      last_response          |-> "",
      user_frustration_level |-> 0,
      payment_received       |-> FALSE,
      current_input          |-> None ]

\* the collaborators, which may raise
Collaborators == {"infer_user_intention", "did_user_pay", "arguer_agent"}

\* what the collaborators do in one node run: the value each returns when it
\* is called, and which of them (if any) raises when it is called
Outcomes ==
    [ intent : UserIntent,
      paid   : BOOLEAN,
      reply  : ArguerReplies,
      raises : Collaborators \cup {None} ]

Raises(c) == c.raises # None

-----------------------------------------------------------------------------
(* The nodes.  A run yields: raised, or the new context and the node returned. *)

Raised(st, node) == [raised |-> TRUE, state |-> st, node |-> node]
Returned(st, node) == [raised |-> FALSE, state |-> st, node |-> node]

\* WaitForInput that puts the newest input first
WaitForInputRunPrepends(st, c) ==
    IF st.current_input = None
    THEN Raised(st, "WaitForInput")
    ELSE Returned([st EXCEPT !.conversation_history = <<st.current_input>> \o @],
                  "ProcessUserInput")

WaitForInputRun(st, c) ==
    IF st.current_input = None
    THEN Raised(st, "WaitForInput")
    ELSE Returned([st EXCEPT !.conversation_history = Append(@, st.current_input)],
                  "ProcessUserInput")

\* routing that compares the frustration level as it was before the
\* increment
ProcessUserInputRunThresholdBeforeIncrement(st, c) ==
    IF c.raises = "infer_user_intention" \/ st.current_input = None
    THEN Raised(st, "ProcessUserInput")
    ELSE IF st.turn_count >= 8
    THEN Returned(st, "ResolutionNode")
    ELSE IF c.intent = META /\ ArgumentInLower[st.current_input]
    THEN Returned(st, "MetaCommentaryNode")
    ELSE IF c.intent = ARGUMENTATIVE
    THEN LET st1 == [st EXCEPT !.user_frustration_level = @ + 1]
         IN  IF st.turn_count >= 3 /\ st.user_frustration_level >= 3
             THEN Returned(st1, "ArgumentationNode")
             ELSE Returned(st1, "SimpleContradictionNode")
    ELSE Returned(st, "SimpleContradictionNode")

\* routing whose gate opens one turn late
ProcessUserInputRunGateAfterEight(st, c) ==
    IF c.raises = "infer_user_intention" \/ st.current_input = None
    THEN Raised(st, "ProcessUserInput")
    ELSE IF st.turn_count > 8
    THEN Returned(st, "ResolutionNode")
    ELSE IF c.intent = META /\ ArgumentInLower[st.current_input]
    THEN Returned(st, "MetaCommentaryNode")
    ELSE IF c.intent = ARGUMENTATIVE
    THEN LET st1 == [st EXCEPT !.user_frustration_level = @ + 1]
         IN  IF st1.turn_count >= 3 /\ st1.user_frustration_level >= 3
             THEN Returned(st1, "ArgumentationNode")
             ELSE Returned(st1, "SimpleContradictionNode")
    ELSE Returned(st, "SimpleContradictionNode")

\* routing that skips the gate for a session that has paid
ProcessUserInputRunSkipsGateWhenPaid(st, c) ==
    IF c.raises = "infer_user_intention" \/ st.current_input = None
    THEN Raised(st, "ProcessUserInput")
    ELSE IF st.turn_count >= 8 /\ ~st.payment_received
    THEN Returned(st, "ResolutionNode")
    ELSE IF c.intent = META /\ ArgumentInLower[st.current_input]
    THEN Returned(st, "MetaCommentaryNode")
    ELSE IF c.intent = ARGUMENTATIVE
    THEN LET st1 == [st EXCEPT !.user_frustration_level = @ + 1]
         IN  IF st1.turn_count >= 3 /\ st1.user_frustration_level >= 3
             THEN Returned(st1, "ArgumentationNode")
             ELSE Returned(st1, "SimpleContradictionNode")
    ELSE Returned(st, "SimpleContradictionNode")

\* routing that counts frustration only for a session that has not paid
ProcessUserInputRunCalmWhenPaid(st, c) ==
    IF c.raises = "infer_user_intention" \/ st.current_input = None
    THEN Raised(st, "ProcessUserInput")
    ELSE IF st.turn_count >= 8
    THEN Returned(st, "ResolutionNode")
    ELSE IF c.intent = META /\ ArgumentInLower[st.current_input]
    THEN Returned(st, "MetaCommentaryNode")
    ELSE IF c.intent = ARGUMENTATIVE
    THEN LET st1 == [st EXCEPT !.user_frustration_level =
                                  IF st.payment_received THEN @ ELSE @ + 1]
         IN  IF st1.turn_count >= 3 /\ st1.user_frustration_level >= 3
             THEN Returned(st1, "ArgumentationNode")
             ELSE Returned(st1, "SimpleContradictionNode")
    ELSE Returned(st, "SimpleContradictionNode")

ProcessUserInputRun(st, c) ==
    IF c.raises = "infer_user_intention" \/ st.current_input = None
    THEN Raised(st, "ProcessUserInput")
    ELSE IF st.turn_count >= 8
    THEN Returned(st, "ResolutionNode")
    ELSE IF c.intent = META /\ ArgumentInLower[st.current_input]
    THEN Returned(st, "MetaCommentaryNode")
    ELSE IF c.intent = ARGUMENTATIVE
    THEN LET st1 == [st EXCEPT !.user_frustration_level = @ + 1]
         IN  IF st1.turn_count >= 3 /\ st1.user_frustration_level >= 3
             THEN Returned(st1, "ArgumentationNode")
             ELSE Returned(st1, "SimpleContradictionNode")
    ELSE Returned(st, "SimpleContradictionNode")

EntryNodeRun(st, c) ==
    Returned([st EXCEPT !.last_response = Greeting], "WaitForInput")

\* SimpleContradictionNode, ArgumentationNode and MetaCommentaryNode differ
\* only in the prompt they send to the arguer
\* a response node after whose argument the user has let off steam
RespondRunCalms(self, st, c) ==
    IF c.raises = "infer_user_intention" \/ c.raises = "arguer_agent"
    THEN Raised(st, self)
    ELSE Returned([st EXCEPT !.last_response = c.reply,
                             !.turn_count = @ + 1,
                             !.user_frustration_level =
                                 IF self = "ArgumentationNode" THEN 0 ELSE @],
                  "WaitForInput")

RespondRun(self, st, c) ==
    IF c.raises = "infer_user_intention" \/ c.raises = "arguer_agent"
    THEN Raised(st, self)
    ELSE Returned([st EXCEPT !.last_response = c.reply,
                             !.turn_count = @ + 1],
                  "WaitForInput")

SimpleContradictionNodeRun(st, c) == RespondRun("SimpleContradictionNode", st, c)
ArgumentationNodeRun(st, c) == RespondRun("ArgumentationNode", st, c)
MetaCommentaryNodeRun(st, c) == RespondRun("MetaCommentaryNode", st, c)

\* the refusal index taken from the turn counter instead of the history
response_index_by_turn_count(st) == st.turn_count % Len(responses)

\* the refusal index taken from the history before the current input
response_index_before_input(st) ==
    (Len(st.conversation_history) - 1) % Len(responses)

\* ResolutionNode.run: response_index
response_index(st) == Len(st.conversation_history) % Len(responses)

\* the acceptance that forgets to reset user_frustration_level
AcceptPaymentKeepsFrustration(st) ==
    Returned([st EXCEPT !.payment_received = TRUE,
                        !.last_response = AcceptanceMessage,
                        !.turn_count = 0],
             "SimpleContradictionNode")

\* ResolutionNode.run: the "Accept payment" branch
\* an acceptance that uses up a payment made earlier
AcceptPaymentSpendsPayment(st) ==
    Returned([st EXCEPT !.payment_received = ~st.payment_received,
                        !.last_response = AcceptanceMessage,
                        !.turn_count = 0,
                        !.user_frustration_level = 0],
             "SimpleContradictionNode")

\* an acceptance that forgets to reset turn_count
AcceptPaymentKeepsTurnCount(st) ==
    Returned([st EXCEPT !.payment_received = TRUE,
                        !.last_response = AcceptanceMessage,
                        !.user_frustration_level = 0],
             "SimpleContradictionNode")

AcceptPayment(st) ==
    Returned([st EXCEPT !.payment_received = TRUE,
                        !.last_response = AcceptanceMessage,
                        !.turn_count = 0,
                        !.user_frustration_level = 0],
             "SimpleContradictionNode")

\* a refusal that counts as a turn
ResolutionNodeRunRefusalCountsTurn(st, c) ==
    IF c.raises = "infer_user_intention"
       \/ (c.intent = TRANSACTIONAL /\ c.raises = "did_user_pay")
    THEN Raised(st, "ResolutionNode")
    ELSE LET payment_detected == IF c.intent = TRANSACTIONAL THEN c.paid ELSE FALSE
         IN  IF ~st.payment_received /\ ~payment_detected
             THEN Returned([st EXCEPT !.last_response = responses[response_index(st) + 1],
                                      !.turn_count = @ + 1],
                           "WaitForInput")
             ELSE IF payment_detected \/ st.payment_received
             THEN AcceptPayment(st)
             ELSE Returned([st EXCEPT !.last_response = DingMessage], "WaitForInput")

\* ResolutionNode that wants a payment every time the gate is reached
ResolutionNodeRunAsksAgain(st, c) ==
    IF c.raises = "infer_user_intention"
       \/ (c.intent = TRANSACTIONAL /\ c.raises = "did_user_pay")
    THEN Raised(st, "ResolutionNode")
    ELSE LET payment_detected == IF c.intent = TRANSACTIONAL THEN c.paid ELSE FALSE
         IN  IF ~payment_detected
             THEN Returned([st EXCEPT !.last_response = responses[response_index(st) + 1]],
                           "WaitForInput")
             ELSE AcceptPayment(st)

\* ResolutionNode that asks the payment detector whatever the intent
ResolutionNodeRunDetectsForAnyIntent(st, c) ==
    IF c.raises = "infer_user_intention" \/ c.raises = "did_user_pay"
    THEN Raised(st, "ResolutionNode")
    ELSE LET payment_detected == c.paid
         IN  IF ~st.payment_received /\ ~payment_detected
             THEN Returned([st EXCEPT !.last_response = responses[response_index(st) + 1]],
                           "WaitForInput")
             ELSE IF payment_detected \/ st.payment_received
             THEN AcceptPayment(st)
             ELSE Returned([st EXCEPT !.last_response = DingMessage], "WaitForInput")

ResolutionNodeRun(st, c) ==
    IF c.raises = "infer_user_intention"
       \/ (c.intent = TRANSACTIONAL /\ c.raises = "did_user_pay")
    THEN Raised(st, "ResolutionNode")
    ELSE LET payment_detected == IF c.intent = TRANSACTIONAL THEN c.paid ELSE FALSE
         IN  IF ~st.payment_received /\ ~payment_detected
             THEN Returned([st EXCEPT !.last_response = responses[response_index(st) + 1]],
                           "WaitForInput")
             ELSE IF payment_detected \/ st.payment_received
             THEN AcceptPayment(st)
             ELSE Returned([st EXCEPT !.last_response = DingMessage], "WaitForInput")

\* graph_context.next(): run the pending node; it becomes the node returned.
\* A node that raises leaves the pending node as it was.
GraphRunNext(node, st, c) ==
    CASE node = "EntryNode" -> EntryNodeRun(st, c)
      [] node = "WaitForInput" -> WaitForInputRun(st, c)
      [] node = "ProcessUserInput" -> ProcessUserInputRun(st, c)
      [] node = "SimpleContradictionNode" -> SimpleContradictionNodeRun(st, c)
      [] node = "ArgumentationNode" -> ArgumentationNodeRun(st, c)
      [] node = "MetaCommentaryNode" -> MetaCommentaryNodeRun(st, c)
      [] node = "ResolutionNode" -> ResolutionNodeRun(st, c)

-----------------------------------------------------------------------------
(* GraphSession.process_input, as run by a task *)

NoResult == [raised |-> FALSE, response |-> "", time |-> 0, node |-> ""]

\* wrote: the response node that ran last in the step of the task, if any;
\* routed: the node ProcessUserInput returned in that step, if it ran
IdleTask == [pc |-> "idle", current_node |-> "", pre |-> <<>>,
             result |-> NoResult, wrote |-> "", routed |-> ""]

InFlight == {"next1", "next2", "next3"}

\* the fields a step may change, as they are when the step begins (the
\* pending node of a graph not started yet is the WaitForInput it starts at)
Snapshot ==
    [ turn_count             |-> state.turn_count,
      user_frustration_level |-> state.user_frustration_level,
      conversation_history   |-> state.conversation_history,
      payment_received       |-> state.payment_received,
      next_node              |-> IF next_node = None THEN "WaitForInput" ELSE next_node ]

\* the rejected call as it would be were the early return inside the try
\* block: the finally block clears the flag of the step in flight
ProcessInputRejectedClearsFlag(t) ==
    /\ task' = [task EXCEPT ![t] =
                  [IdleTask EXCEPT !.pc = "ret",
                                   !.result = [raised |-> FALSE,
                                               response |-> WaitMessage,
                                               time |-> 0,
                                               node |-> "ConcurrencyError"]]]
    /\ is_processing' = FALSE
    /\ UNCHANGED <<state, next_node, metrics>>
    /\ UNCHANGED <<connection, active_sessions, peer>>

\* a rejected call that is counted as an error
ProcessInputRejectedCountsError(t) ==
    /\ task' = [task EXCEPT ![t] =
                  [IdleTask EXCEPT !.pc = "ret",
                                   !.result = [raised |-> FALSE,
                                               response |-> WaitMessage,
                                               time |-> 0,
                                               node |-> "ConcurrencyError"]]]
    /\ metrics' = [metrics EXCEPT !.error_count = @ + 1]
    /\ UNCHANGED <<state, next_node, is_processing>>
    /\ UNCHANGED <<connection, active_sessions, peer>>

\* the early return of process_input when is_processing is set
ProcessInputRejected(t) ==
    /\ task' = [task EXCEPT ![t] =
                  [IdleTask EXCEPT !.pc = "ret",
                                   !.result = [raised |-> FALSE,
                                               response |-> WaitMessage,
                                               time |-> 0,
                                               node |-> "ConcurrencyError"]]]
    /\ UNCHANGED <<state, next_node, is_processing, metrics>>
    /\ UNCHANGED <<connection, active_sessions, peer>>

\* start_graph without the test of graph_runner: every call starts the
\* graph again at EntryNode
StartGraphEveryCall(st) == EntryNodeRun(st, CHOOSE c \in Outcomes : TRUE)

\* start_graph: runs EntryNode when the graph has not been started
StartGraph(st) ==
    IF next_node = None THEN EntryNodeRun(st, CHOOSE c \in Outcomes : TRUE)
                        ELSE Returned(st, next_node)

\* from the flag being set up to the first graph_context.next()
ProcessInputAccepted(t, user_input) ==
    LET g == StartGraph(state)
    IN  /\ is_processing' = TRUE
        /\ state' = [g.state EXCEPT !.current_input = user_input]
        /\ next_node' = g.node
        /\ task' = [task EXCEPT ![t] =
                      [IdleTask EXCEPT !.pc = "next1", !.pre = <<Snapshot>>]]
        /\ UNCHANGED <<metrics, connection, active_sessions, peer>>

\* process_input without the is_processing test
CallWithoutGuard(t, user_input, max_history) ==
    /\ task[t].pc = "idle"
    /\ connection = "open"
    /\ Len(state.conversation_history) < max_history
    /\ ProcessInputAccepted(t, user_input)

Call(t, user_input, max_history) ==
    /\ task[t].pc = "idle"
    /\ connection = "open"
    /\ Len(state.conversation_history) < max_history
    /\ IF is_processing
       THEN ProcessInputRejected(t)
       ELSE ProcessInputAccepted(t, user_input)

\* the except block without the finally block
ProcessInputRaisedKeepsFlag(t) ==
    /\ metrics' = [metrics EXCEPT !.error_count = @ + 1]
    /\ UNCHANGED is_processing
    /\ task' = [task EXCEPT ![t] =
                  [@ EXCEPT !.pc = "ret",
                            !.result = [NoResult EXCEPT !.raised = TRUE]]]

\* the except and finally blocks
ProcessInputRaised(t) ==
    /\ metrics' = [metrics EXCEPT !.error_count = @ + 1]
    /\ is_processing' = FALSE
    /\ task' = [task EXCEPT ![t] =
                  [@ EXCEPT !.pc = "ret",
                            !.result = [NoResult EXCEPT !.raised = TRUE]]]

\* after the third next(): the return statement and the finally block
ProcessInputReturned(t, st, node_name, ms) ==
    /\ metrics' = [metrics EXCEPT !.success_count = @ + 1]
    /\ is_processing' = FALSE
    /\ task' = [task EXCEPT ![t] =
                  [@ EXCEPT !.pc = "ret",
                            !.wrote = IF next_node \in ResponseNodes
                                      THEN next_node ELSE @,
                            !.routed = IF next_node = "ProcessUserInput"
                                       THEN next_node' ELSE @,
                            !.result =
                               [raised |-> FALSE,
                                response |-> IF st.last_response # ""
                                             THEN st.last_response
                                             ELSE DefaultResponse,
                                time |-> ms,
                                node |-> node_name]]]

\* one graph_context.next() of the three in process_input
Next123(t, c, ms, max_failures) ==
    /\ task[t].pc \in InFlight
    /\ UNCHANGED <<connection, active_sessions, manager, inbox, peer>>
    /\ Raises(c) => metrics.error_count < max_failures
    /\ LET r == GraphRunNext(next_node, state, c)
       IN  IF r.raised
           THEN /\ ProcessInputRaised(t)
                /\ UNCHANGED <<state, next_node>>
           ELSE /\ state' = r.state
                /\ next_node' = r.node
                /\ CASE task[t].pc = "next1" ->
                          /\ ms = 0
                          /\ task' = [task EXCEPT ![t] =
                                        [@ EXCEPT !.pc = "next2",
                                                  !.wrote = IF next_node \in ResponseNodes
                                                            THEN next_node ELSE @,
                                                  !.routed = IF next_node = "ProcessUserInput"
                                                             THEN r.node ELSE @]]
                          /\ UNCHANGED <<is_processing, metrics>>
                     [] task[t].pc = "next2" ->
                          /\ ms = 0
                          /\ task' = [task EXCEPT ![t] =
                                        [@ EXCEPT !.pc = "next3",
                                                  !.wrote = IF next_node \in ResponseNodes
                                                            THEN next_node ELSE @,
                                                  !.routed = IF next_node = "ProcessUserInput"
                                                             THEN r.node ELSE @,
                                                  !.current_node = r.node]]
                          /\ UNCHANGED <<is_processing, metrics>>
                     [] task[t].pc = "next3" ->
                          ProcessInputReturned(t, r.state, task[t].current_node, ms)

-----------------------------------------------------------------------------
(* SessionManager.  Its operations have no await: each is one atomic step.  *)
(* A timer task sleeps max_session_minutes; a task cancelled while it       *)
(* sleeps, or before it has started, never runs the rest of its coroutine,  *)
(* so only the pending tasks are kept.                                      *)

NoCall == [op |-> "", session_id |-> "", found |-> FALSE]

\* what a call records: the operation, its argument, and whether the
\* session was registered when the call began
Called(op, session_id) ==
    last_call' = [op |-> op, session_id |-> session_id,
                  found |-> session_id \in active_sessions]

\* the task asyncio.create_task makes next
NewTimer(pending) ==
    CHOOSE k \in TimerIds \ pending : \A j \in TimerIds \ pending : k <= j

\* asyncio.create_task(self._cleanup_after_timeout(session_id))
create_task(ts, session_id) ==
    [k \in DOMAIN ts \cup {NewTimer(DOMAIN ts)} |->
        IF k \in DOMAIN ts THEN ts[k]
        ELSE [session_id |-> session_id, left |-> max_session_minutes]]

\* Task.cancel()
cancel(ts, k) == [j \in DOMAIN ts \ {k} |-> ts[j]]

\* del d[key]
del(d, key) == [x \in DOMAIN d \ {key} |-> d[x]]

\* the clocks of a session start, or are put away with the session
Clocks(clock, session_id, minutes) == [clock EXCEPT ![session_id] = minutes]

\* create_session that starts no timer task
create_session_without_timer(session_id) ==
    /\ session_id \notin issued
    /\ DOMAIN timers # TimerIds
    /\ Called("create_session", session_id)
    /\ issued' = issued \cup {session_id}
    /\ active_sessions' = active_sessions \cup {session_id}
    /\ UNCHANGED <<timers, session_timeouts>>
    /\ idle_minutes' = Clocks(idle_minutes, session_id, 0)
    /\ age_minutes' = Clocks(age_minutes, session_id, 0)

\* SessionManager.create_session; uuid4 gives an id it never gave before
create_session(session_id) ==
    /\ session_id \notin issued
    /\ DOMAIN timers # TimerIds
    /\ Called("create_session", session_id)
    /\ issued' = issued \cup {session_id}
    /\ active_sessions' = active_sessions \cup {session_id}
    /\ timers' = create_task(timers, session_id)
    /\ session_timeouts' =
          [x \in DOMAIN session_timeouts \cup {session_id} |->
              IF x = session_id THEN NewTimer(DOMAIN timers) ELSE session_timeouts[x]]
    /\ idle_minutes' = Clocks(idle_minutes, session_id, 0)
    /\ age_minutes' = Clocks(age_minutes, session_id, 0)

\* reset_timeout that starts the new timer without cancelling the old one
reset_timeout_without_cancel(session_id) ==
    /\ Called("reset_timeout", session_id)
    /\ IF session_id \in DOMAIN session_timeouts
       THEN /\ DOMAIN timers # TimerIds
            /\ timers' = create_task(timers, session_id)
            /\ session_timeouts' =
                  [session_timeouts EXCEPT ![session_id] = NewTimer(DOMAIN timers)]
       ELSE UNCHANGED <<timers, session_timeouts>>
    /\ idle_minutes' = IF session_id \in active_sessions
                       THEN Clocks(idle_minutes, session_id, 0)
                       ELSE idle_minutes
    /\ UNCHANGED <<active_sessions, issued, age_minutes>>

\* reset_timeout without the membership test
reset_timeout_untested(session_id) ==
    /\ Called("reset_timeout", session_id)
    /\ LET ts == IF session_id \in DOMAIN session_timeouts
                 THEN cancel(timers, session_timeouts[session_id])
                 ELSE timers
       IN  /\ DOMAIN ts # TimerIds
           /\ timers' = create_task(ts, session_id)
           /\ session_timeouts' =
                 [x \in DOMAIN session_timeouts \cup {session_id} |->
                     IF x = session_id THEN NewTimer(DOMAIN ts) ELSE session_timeouts[x]]
    /\ idle_minutes' = IF session_id \in active_sessions
                       THEN Clocks(idle_minutes, session_id, 0)
                       ELSE idle_minutes
    /\ UNCHANGED <<active_sessions, issued, age_minutes>>

\* SessionManager.reset_timeout
\* reset_timeout that starts a timer whether the session is registered or not
reset_timeout_unconditional(session_id) ==
    /\ Called("reset_timeout", session_id)
    /\ DOMAIN timers # TimerIds \/ session_id \in DOMAIN session_timeouts
    /\ LET ts == IF session_id \in DOMAIN session_timeouts
                 THEN cancel(timers, session_timeouts[session_id])
                 ELSE timers
       IN  /\ timers' = create_task(ts, session_id)
           /\ session_timeouts' =
                 [x \in DOMAIN session_timeouts \cup {session_id} |->
                     IF x = session_id THEN NewTimer(DOMAIN ts)
                     ELSE session_timeouts[x]]
    /\ idle_minutes' = IF session_id \in active_sessions
                       THEN Clocks(idle_minutes, session_id, 0)
                       ELSE idle_minutes
    /\ UNCHANGED <<active_sessions, issued, age_minutes>>

reset_timeout(session_id) ==
    /\ Called("reset_timeout", session_id)
    /\ IF session_id \in DOMAIN session_timeouts
       THEN LET ts == cancel(timers, session_timeouts[session_id])
            IN  /\ timers' = create_task(ts, session_id)
                /\ session_timeouts' =
                      [session_timeouts EXCEPT ![session_id] = NewTimer(DOMAIN ts)]
       ELSE UNCHANGED <<timers, session_timeouts>>
    /\ idle_minutes' = IF session_id \in active_sessions
                       THEN Clocks(idle_minutes, session_id, 0)
                       ELSE idle_minutes
    /\ UNCHANGED <<active_sessions, issued, age_minutes>>

\* cleanup_session that deletes the timer entry without cancelling the task
cleanup_session_without_cancel(session_id) ==
    /\ Called("cleanup_session", session_id)
    /\ active_sessions' = active_sessions \ {session_id}
    /\ session_timeouts' = del(session_timeouts, session_id)
    /\ UNCHANGED timers
    /\ idle_minutes' = Clocks(idle_minutes, session_id, 0)
    /\ age_minutes' = Clocks(age_minutes, session_id, 0)
    /\ UNCHANGED issued

\* cleanup_session that cancels every pending timer task
cleanup_session_cancels_every_timer(session_id) ==
    /\ Called("cleanup_session", session_id)
    /\ active_sessions' = active_sessions \ {session_id}
    /\ timers' = [k \in {} |-> timers[k]]
    /\ session_timeouts' = del(session_timeouts, session_id)
    /\ idle_minutes' = Clocks(idle_minutes, session_id, 0)
    /\ age_minutes' = Clocks(age_minutes, session_id, 0)
    /\ UNCHANGED issued

\* SessionManager.cleanup_session
cleanup_session(session_id) ==
    /\ Called("cleanup_session", session_id)
    /\ active_sessions' = active_sessions \ {session_id}
    /\ IF session_id \in DOMAIN session_timeouts
       THEN /\ timers' = cancel(timers, session_timeouts[session_id])
            /\ session_timeouts' = del(session_timeouts, session_id)
       ELSE UNCHANGED <<timers, session_timeouts>>
    /\ idle_minutes' = Clocks(idle_minutes, session_id, 0)
    /\ age_minutes' = Clocks(age_minutes, session_id, 0)
    /\ UNCHANGED issued

\* _cleanup_after_timeout that leaves its entry in session_timeouts
cleanup_after_timeout_keeps_entry(k) ==
    /\ k \in DOMAIN timers
    /\ timers[k].left = 0
    /\ Called("cleanup_after_timeout", timers[k].session_id)
    /\ active_sessions' = active_sessions \ {timers[k].session_id}
    /\ UNCHANGED session_timeouts
    /\ timers' = del(timers, k)
    /\ idle_minutes' = Clocks(idle_minutes, timers[k].session_id, 0)
    /\ age_minutes' = Clocks(age_minutes, timers[k].session_id, 0)
    /\ UNCHANGED issued

\* SessionManager._cleanup_after_timeout, from the end of its sleep: the
\* task k has slept max_session_minutes and has not been cancelled
cleanup_after_timeout(k) ==
    /\ k \in DOMAIN timers
    /\ timers[k].left = 0
    /\ Called("cleanup_after_timeout", timers[k].session_id)
    /\ active_sessions' = active_sessions \ {timers[k].session_id}
    /\ session_timeouts' = del(session_timeouts, timers[k].session_id)
    /\ timers' = del(timers, k)
    /\ idle_minutes' = Clocks(idle_minutes, timers[k].session_id, 0)
    /\ age_minutes' = Clocks(age_minutes, timers[k].session_id, 0)
    /\ UNCHANGED issued

\* a minute passes: every sleeping task has a minute less to sleep
Tick ==
    /\ timers' = [k \in DOMAIN timers |->
                    [timers[k] EXCEPT !.left = IF @ > 0 THEN @ - 1 ELSE 0]]
    /\ idle_minutes' =
          [x \in SessionIds |->
              IF x \in active_sessions /\ idle_minutes[x] < max_session_minutes
              THEN idle_minutes[x] + 1 ELSE idle_minutes[x]]
    /\ age_minutes' =
          [x \in SessionIds |->
              IF x \in active_sessions /\ age_minutes[x] <= max_session_minutes
              THEN age_minutes[x] + 1 ELSE age_minutes[x]]
    /\ UNCHANGED <<active_sessions, session_timeouts, issued, last_call>>

-----------------------------------------------------------------------------
(* WebSocketHandler *)

\* _handle_text_input after process_input: the result is sent as an
\* ai_response, an exception is caught and sent as an error; either way
\* handle_connection goes on to the next message
HandleTextInputDone(t) ==
    /\ task' = [task EXCEPT ![t] = IdleTask]
    /\ UNCHANGED <<connection, active_sessions, manager, inbox, peer>>

Deliver(t) ==
    /\ task[t].pc = "ret"
    /\ HandleTextInputDone(t)
    /\ UNCHANGED <<state, next_node, is_processing, metrics>>

\* handle_connection without its finally block
DisconnectWithoutCleanup(t) ==
    /\ task[t].pc = "idle"
    /\ connection = "open"
    /\ connection' = "closed"
    /\ UNCHANGED <<state, next_node, is_processing, metrics, task, inbox, peer>>
    /\ UNCHANGED <<active_sessions, manager>>

\* handle_connection: receive_text raises WebSocketDisconnect while the
\* handler waits for the next message; the finally block cleans the session up
Disconnect(t) ==
    /\ task[t].pc = "idle"
    /\ connection = "open"
    /\ connection' = "closed"
    /\ cleanup_session(SessionId)
    /\ UNCHANGED <<state, next_node, is_processing, metrics, task, inbox, peer>>

-----------------------------------------------------------------------------

\* no timer, no entry
Empty == [x \in {} |-> 0]

\* GraphSession.__init__ and PerformanceMetrics(); no caller has begun, the
\* client has sent nothing
InitSession ==
    /\ state = ArgumentClinicContext
    /\ next_node = None
    /\ is_processing = FALSE
    /\ metrics = [success_count |-> 0, error_count |-> 0]
    /\ task = [t \in Tasks |-> IdleTask]
    /\ inbox = <<>>

\* SessionManager.__init__
InitManager ==
    /\ active_sessions = {}
    /\ session_timeouts = Empty
    /\ timers = Empty
    /\ issued = {}
    /\ idle_minutes = [x \in SessionIds |-> 0]
    /\ age_minutes = [x \in SessionIds |-> 0]
    /\ last_call = NoCall

\* handle_connection has accepted the websocket and created the session
Init ==
    /\ InitSession
    /\ connection = "open"
    /\ active_sessions = {SessionId}
    /\ session_timeouts = [x \in {SessionId} |-> NewTimer({})]
    /\ timers = create_task(Empty, SessionId)
    /\ issued = {SessionId}
    /\ idle_minutes = [x \in SessionIds |-> 0]
    /\ age_minutes = [x \in SessionIds |-> 0]
    /\ last_call = [op |-> "create_session", session_id |-> SessionId, found |-> FALSE]
    /\ peer = Empty

\* the session driven by the callers `tasks`, which send the inputs `texts`;
\* no time passes
Run(tasks, texts, max_history, max_failures) ==
    \/ \E t \in tasks, user_input \in texts :
          /\ Call(t, user_input, max_history)
          /\ UNCHANGED <<manager, inbox>>
    \/ \E t \in tasks, c \in Outcomes :
          \E ms \in (IF task[t].pc = "next3" THEN ElapsedMs ELSE {0}) :
             Next123(t, c, ms, max_failures)
    \/ \E t \in tasks : Deliver(t)

\* concurrent callers of process_input, short conversations
Next == Run(Tasks, Texts, MaxHistory, MaxFailures)

Spec == Init /\ [][Next]_vars

\* the handler of the connection
Handler == "t1"

\* one connection: handle_connection takes one message at a time, in
\* conversations long enough to reach the payment gate twice
NextConnection ==
    \/ Run({Handler}, {"Not an ARGUMENT"}, MaxConnHistory, MaxConnFailures)
    \/ Disconnect(Handler)

SpecConnection == Init /\ [][NextConnection]_vars

\* what the SessionManager does not touch
session == <<state, next_node, is_processing, metrics, task, connection, inbox>>

\* GraphSession.__init__: the object create_session makes
GraphSession ==
    [ state |-> ArgumentClinicContext, next_node |-> None,
      is_processing |-> FALSE, pc |-> "idle", calls |-> 0, last |-> "" ]

CreateSession(session_id) ==
    /\ create_session(session_id)
    /\ peer' = [x \in DOMAIN peer \cup {session_id} |->
                   IF x = session_id THEN GraphSession ELSE peer[x]]
    /\ UNCHANGED session

ResetTimeout(session_id) == reset_timeout(session_id) /\ UNCHANGED <<session, peer>>

CleanupSession(session_id) == cleanup_session(session_id) /\ UNCHANGED <<session, peer>>

\* an expiry that cancels the step in flight on the session
TimerExpiresCancelsStep(k) ==
    /\ cleanup_after_timeout(k)
    /\ task' = [t \in Tasks |-> IdleTask]
    /\ is_processing' = FALSE
    /\ UNCHANGED <<state, next_node, metrics, connection, inbox, peer>>

TimerExpires(k) == cleanup_after_timeout(k) /\ UNCHANGED <<session, peer>>

MinutePasses == Tick /\ UNCHANGED <<session, peer>>

\* the SessionManager alone, its operations called in any order on any id
InitRegistry == InitSession /\ connection = "closed" /\ InitManager /\ peer = Empty

NextManager ==
    \/ \E session_id \in SessionIds : CreateSession(session_id)
    \/ \E session_id \in SessionIds : ResetTimeout(session_id)
    \/ \E session_id \in SessionIds : CleanupSession(session_id)
    \/ \E k \in TimerIds : TimerExpires(k)
    \/ MinutePasses

SpecManager == InitRegistry /\ [][NextManager]_vars

\* the event loop runs a task whose sleep is over, and time goes on
SpecManagerFair ==
    /\ SpecManager
    /\ \A k \in TimerIds : WF_vars(TimerExpires(k))
    /\ WF_vars(MinutePasses)

\* the client sends a message; it waits in the websocket until the handler
\* awaits receive_text.  The message is marked with what was the case when
\* it was sent: a step in flight, the session gone from the registry
Sent(message) ==
    /\ connection = "open"
    /\ Len(inbox) < MaxInbox
    /\ inbox' = Append(inbox, [json |-> message.json,
                               type |-> message.type,
                               has_content |-> message.has_content,
                               content |-> message.content,
                               during_step |-> is_processing,
                               after_expiry |-> SessionId \notin active_sessions])
    /\ UNCHANGED <<state, next_node, is_processing, metrics, task, connection,
                   active_sessions, manager, peer>>

\* {"type": "user_input", "content": text}
Send(text) ==
    Sent([json |-> TRUE, type |-> "user_input", has_content |-> TRUE,
          content |-> text])

\* {"type": "user_input"}
SendWithoutContent ==
    Sent([json |-> TRUE, type |-> "user_input", has_content |-> FALSE,
          content |-> NoContent])

\* {"type": "ping"}: a type _process_message does not know
SendUnknownType ==
    Sent([json |-> TRUE, type |-> "ping", has_content |-> FALSE,
          content |-> NoContent])

\* a text that json.loads does not parse
SendNotJson ==
    Sent([json |-> FALSE, type |-> "", has_content |-> FALSE, content |-> NoContent])

\* the error message _receive_messages sends for a JSONDecodeError
InvalidFormatResult ==
    [raised |-> FALSE, response |-> "Invalid message format", time |-> 0,
     node |-> "error"]

\* _receive_messages: json.loads raises, the error is sent, the loop goes on
InvalidMessageFormat(t) ==
    /\ task[t].pc = "idle"
    /\ connection = "open"
    /\ task' = [task EXCEPT ![t] =
                  [IdleTask EXCEPT !.pc = "ret", !.result = InvalidFormatResult]]
    /\ UNCHANGED <<state, next_node, is_processing, metrics, connection,
                   active_sessions, manager, peer>>

\* the error message _process_message sends for a type it does not know
UnknownTypeResult ==
    [raised |-> FALSE, response |-> "Unknown message type", time |-> 0,
     node |-> "error"]

\* _process_message: the else branch, the error is sent, the loop goes on
UnknownMessageType(t) ==
    /\ task[t].pc = "idle"
    /\ connection = "open"
    /\ task' = [task EXCEPT ![t] =
                  [IdleTask EXCEPT !.pc = "ret", !.result = UnknownTypeResult]]
    /\ UNCHANGED <<state, next_node, is_processing, metrics, connection, peer>>

\* a handler that resets the timer only for the messages it dispatches to
\* _handle_text_input
ReceiveResetsWhenDispatched(t, max_history) ==
    /\ inbox # <<>>
    /\ inbox' = Tail(inbox)
    /\ IF ~Head(inbox).json
       THEN InvalidMessageFormat(t)
       ELSE IF Head(inbox).type = "user_input"
       THEN /\ reset_timeout(SessionId)
            /\ Call(t, IF Head(inbox).has_content THEN Head(inbox).content
                                                  ELSE NoContent,
                    max_history)
       ELSE /\ UnknownMessageType(t)
            /\ UNCHANGED <<active_sessions, manager>>

\* a handler that starts a task of its own for every message it reads
ReceiveInOwnTask(t, max_history) ==
    /\ inbox # <<>>
    /\ inbox' = Tail(inbox)
    /\ IF Head(inbox).json
       THEN /\ reset_timeout(SessionId)
            /\ \E u \in Tasks :
                 Call(u, IF Head(inbox).has_content THEN Head(inbox).content
                                                    ELSE NoContent,
                      max_history)
       ELSE InvalidMessageFormat(t)

\* _receive_messages reads the next message; if it parses, the timer is
\* reset and the message is yielded to _process_message: _handle_text_input
\* calls process_input with data.get("content", ""), up to the first await
\* of process_input; a type that is not known is answered with an error
Receive(t, max_history) ==
    /\ inbox # <<>>
    /\ inbox' = Tail(inbox)
    /\ IF ~Head(inbox).json
       THEN InvalidMessageFormat(t)
       ELSE /\ reset_timeout(SessionId)
            /\ IF Head(inbox).type = "user_input"
               THEN Call(t, IF Head(inbox).has_content THEN Head(inbox).content
                                                       ELSE NoContent,
                         max_history)
               ELSE UnknownMessageType(t)

\* one connection whose client sends when it likes and may fall silent
NextHandler ==
    \/ Send("Yes it is")
    \/ Receive(Handler, MaxHandlerHistory)
    \/ \E c \in Outcomes :
          \E ms \in (IF task[Handler].pc = "next3" THEN ElapsedMs ELSE {0}) :
             Next123(Handler, c, ms, MaxHandlerFailures)
    \/ Deliver(Handler)
    \/ MinutePasses
    \/ \E k \in TimerIds : TimerExpires(k)
    \/ Disconnect(Handler)

SpecHandler == Init /\ [][NextHandler]_vars

\* one connection whose client sends messages of every kind; no time passes
NextMessages ==
    \/ Send("Yes it is")
    \/ SendWithoutContent
    \/ SendNotJson
    \/ Receive(Handler, MaxHandlerHistory)
    \/ \E c \in Outcomes :
          \E ms \in (IF task[Handler].pc = "next3" THEN ElapsedMs ELSE {0}) :
             Next123(Handler, c, ms, MaxHandlerFailures)
    \/ Deliver(Handler)
    \/ Disconnect(Handler)

SpecMessages == Init /\ [][NextMessages]_vars

MaxActivityHistory == 1
MaxActivityFailures == 1

\* what the collaborators do in these conversations: the classifier finds
\* every input argumentative, nobody pays, any collaborator may fail
SessionsOutcomes == {c \in Outcomes : c.intent = ARGUMENTATIVE /\ ~c.paid}

\* one connection whose client sends texts, messages of a type that is not
\* known and messages that do not parse, while the session timer runs
NextActivity ==
    \/ Send("Yes it is")
    \/ SendUnknownType
    \/ SendNotJson
    \/ Receive(Handler, MaxActivityHistory)
    \/ \E c \in SessionsOutcomes : Next123(Handler, c, 0, MaxActivityFailures)
    \/ Deliver(Handler)
    \/ MinutePasses
    \/ \E k \in TimerIds : TimerExpires(k)
    \/ Disconnect(Handler)

SpecActivity == Init /\ [][NextActivity]_vars

-----------------------------------------------------------------------------
(* Several sessions: the session of Init and the sessions created since.   *)
(* They share the SessionManager and the metrics; each GraphSession has    *)
(* its own state, graph run and flag.                                      *)

MaxSessionsHistory == 1
MaxSessionsFailures == 1

\* the sessions besides the one of Init
PeerIds == SessionIds \ {SessionId}

\* GraphSession.start_graph of the object p
PeerStartGraph(p) ==
    IF p.next_node = None THEN EntryNodeRun(p.state, CHOOSE c \in Outcomes : TRUE)
                          ELSE Returned(p.state, p.next_node)

\* GraphSession.process_input of another session, up to its first next():
\* the early return, or the flag, start_graph and current_input
PeerCall(session_id, user_input, max_history) ==
    /\ session_id \in DOMAIN peer
    /\ LET p == peer[session_id]
           g == PeerStartGraph(p)
       IN  IF p.is_processing
           THEN peer' = [peer EXCEPT ![session_id].last = "ConcurrencyError"]
           ELSE /\ p.calls < max_history
                /\ peer' = [peer EXCEPT ![session_id] =
                              [p EXCEPT !.is_processing = TRUE,
                                        !.state = [g.state EXCEPT
                                                     !.current_input = user_input],
                                        !.next_node = g.node,
                                        !.pc = "next1",
                                        !.calls = @ + 1,
                                        !.last = ""]]
    /\ UNCHANGED <<state, next_node, is_processing, metrics, task, connection, inbox>>

\* a message for another session: _receive_messages resets its timer, then
\* process_input is called
PeerReceive(session_id, user_input, max_history) ==
    /\ reset_timeout(session_id)
    /\ PeerCall(session_id, user_input, max_history)

\* one graph_context.next() of the three in process_input of another
\* session; the except and finally blocks when it raises, the return and the
\* finally block after the third
PeerNext(session_id, c, max_failures) ==
    /\ session_id \in DOMAIN peer
    /\ peer[session_id].pc \in InFlight
    /\ Raises(c) => metrics.error_count < max_failures
    /\ LET p == peer[session_id]
           r == GraphRunNext(p.next_node, p.state, c)
       IN  IF r.raised
           THEN /\ metrics' = [metrics EXCEPT !.error_count = @ + 1]
                /\ peer' = [peer EXCEPT ![session_id] =
                              [p EXCEPT !.is_processing = FALSE, !.pc = "idle",
                                        !.last = "raised"]]
           ELSE IF p.pc = "next3"
           THEN /\ metrics' = [metrics EXCEPT !.success_count = @ + 1]
                /\ peer' = [peer EXCEPT ![session_id] =
                              [p EXCEPT !.state = r.state, !.next_node = r.node,
                                        !.is_processing = FALSE, !.pc = "idle",
                                        !.last = "returned"]]
           ELSE /\ UNCHANGED metrics
                /\ peer' = [peer EXCEPT ![session_id] =
                              [p EXCEPT !.state = r.state, !.next_node = r.node,
                                        !.pc = IF p.pc = "next1" THEN "next2"
                                                                 ELSE "next3"]]
    /\ UNCHANGED <<state, next_node, is_processing, task, connection,
                   active_sessions, manager, inbox>>

\* the handler of the first connection takes a message: the timer is reset,
\* process_input begins
ReceiveText(t, user_input, max_history) ==
    /\ reset_timeout(SessionId)
    /\ Call(t, user_input, max_history)
    /\ UNCHANGED inbox

\* two connections: the handler of the first runs its session; a second
\* session is created, called (also while a step of it is in flight) and
\* cleaned up; the timers of both run
NextSessions ==
    \/ ReceiveText(Handler, "Yes it is", MaxSessionsHistory)
    \/ \E c \in SessionsOutcomes : Next123(Handler, c, 0, MaxSessionsFailures)
    \/ Deliver(Handler)
    \/ Disconnect(Handler)
    \/ \E session_id \in PeerIds :
          PeerReceive(session_id, "Yes it is", MaxSessionsHistory)
    \/ \E session_id \in PeerIds, c \in SessionsOutcomes :
          PeerNext(session_id, c, MaxSessionsFailures)
    \/ \E session_id \in PeerIds : CleanupSession(session_id)
    \/ \E k \in TimerIds : TimerExpires(k)
    \/ MinutePasses

\* two connections have been accepted at the same time, a session created
\* for each
InitSessions ==
    /\ InitSession
    /\ connection = "open"
    /\ peer = [x \in PeerIds |-> GraphSession]
    /\ active_sessions = SessionIds
    /\ session_timeouts =
          [x \in SessionIds |-> IF x = SessionId THEN NewTimer({})
                                                 ELSE NewTimer({NewTimer({})})]
    /\ timers = create_task(create_task(Empty, SessionId), "s2")
    /\ issued = SessionIds
    /\ idle_minutes = [x \in SessionIds |-> 0]
    /\ age_minutes = [x \in SessionIds |-> 0]
    /\ last_call = [op |-> "create_session", session_id |-> "s2", found |-> FALSE]

SpecSessions == InitSessions /\ [][NextSessions]_vars

-----------------------------------------------------------------------------
(* Properties *)

\* the tasks whose accepted step is between setting and clearing is_processing
StepsInFlight == {t \in Tasks : task[t].pc \in InFlight}

RejectionResult ==
    [raised |-> FALSE, response |-> WaitMessage, time |-> 0, node |-> "ConcurrencyError"]

\* C1: under every interleaving of concurrent process_input calls on a
\* session, at most one call is between setting is_processing and clearing
\* it, and is_processing is True exactly while such a step is in flight.
C1_SingleFlight ==
    /\ Cardinality(StepsInFlight) <= 1
    /\ is_processing <=> StepsInFlight # {}

\* a second call was made, and rejected, while a step was in flight
C1_Witness ==
    \E t, u \in Tasks :
        /\ task[t].pc = "next2"
        /\ task[u].pc = "ret"
        /\ task[u].result = RejectionResult
        /\ is_processing

\* C2: a process_input call that finds is_processing set returns the fixed
\* triple ("Please wait for the current response to complete.", 0.0,
\* "ConcurrencyError") and changes nothing: not the context, the pending
\* node, the metric counters, nor is_processing itself.
C2_RejectedCallChangesNothing ==
    [][\A t \in Tasks :
          (task[t].pc = "idle" /\ is_processing /\ task'[t].pc # "idle")
          => /\ task'[t].pc = "ret"
             /\ task'[t].result = RejectionResult
             /\ UNCHANGED <<state, next_node, metrics, is_processing>>
             /\ \A u \in Tasks \ {t} : task'[u] = task[u]]_vars

\* a call was rejected and the step in flight still holds the flag
C2_Witness ==
    \E t, u \in Tasks :
        /\ task[u].pc = "ret"
        /\ task[u].result = RejectionResult
        /\ task[t].pc = "next3"
        /\ is_processing
        /\ state.conversation_history # <<>>

\* C3: if the intent classifier, the payment detector or the response
\* generator raises during a step, then after the step turn_count,
\* user_frustration_level, conversation_history, payment_received and the
\* pending node are what they were before the step began.
C3_FailedStepChangesNothing ==
    [][\A t \in Tasks :
          (task[t].pc \in InFlight /\ task'[t].pc = "ret" /\ task'[t].result.raised)
          => Snapshot' = task[t].pre[1]]_vars

\* C4: whenever an accepted process_input call ends, by returning or by an
\* exception of a collaborator, is_processing is False when the result or the
\* exception reaches the caller; the failure closes neither the connection
\* nor the session, and the next call on the session is accepted.
C4_FlagClearedOnEveryExit ==
    [][\A t \in Tasks :
          /\ (task[t].pc \in InFlight /\ task'[t].pc = "ret") => ~is_processing'
          /\ (task[t].pc = "ret" /\ task[t].result.raised /\ task'[t].pc # "ret")
              => /\ task'[t].pc = "idle"
                 /\ connection' = "open"
                 /\ SessionId \in active_sessions'
          /\ (task[t].pc = "idle" /\ task'[t].pc # "idle")
              => task'[t].pc = "next1"]_vars

\* a step failed, the flag is clear, and the next call has been accepted
C4_Witness ==
    /\ metrics.error_count >= 1
    /\ task[Handler].pc = "next1"
    /\ connection = "open"
    /\ SessionId \in active_sessions

\* C5: every successful process_input step leaves the engine at
\* WaitForInput, also the step in which Resolution accepts payment.
C5_SuccessfulStepEndsAtWaitForInput ==
    \A t \in Tasks :
        (/\ task[t].pc = "ret"
         /\ ~task[t].result.raised
         /\ task[t].result.node # "ConcurrencyError"
         /\ metrics.error_count = 0)
        => next_node = "WaitForInput"

\* the collaborators raised nothing
Quiet == {c \in Outcomes : c.raises = None}

\* did_user_pay was called and answered True
PaymentDetected(c) == c.intent = TRANSACTIONAL /\ c.paid

\* in this step of the connection's handler, task t's next() ran `node`
\* with the collaborators behaving as c, and the node returned
NodeReturned(t, c, node) ==
    /\ next_node = node
    /\ ~GraphRunNext(node, state, c).raised
    /\ \E ms \in ElapsedMs : Next123(t, c, ms, MaxConnFailures)

\* C6: whenever routing runs with turn_count >= 8 the next node is
\* ResolutionNode, for every intent and every input text, and routing
\* leaves user_frustration_level as it was.
C6_GateRoutesToResolution ==
    [][\A t \in Tasks, c \in Outcomes :
          (state.turn_count >= 8 /\ NodeReturned(t, c, "ProcessUserInput"))
          => /\ next_node' = "ResolutionNode"
             /\ state'.user_frustration_level = state.user_frustration_level
             /\ \A text \in Texts, d \in Quiet :
                   LET r == ProcessUserInputRun([state EXCEPT !.current_input = text], d)
                   IN  /\ r.node = "ResolutionNode"
                       /\ r.state.user_frustration_level = state.user_frustration_level]_vars

\* routing has just run at the gate
C6_Witness ==
    \E t \in Tasks :
        /\ task[t].pc = "next3"
        /\ task[t].current_node = "ResolutionNode"
        /\ next_node = "ResolutionNode"
        /\ state.turn_count >= 8

\* contexts that agree with st on turn_count and user_frustration_level and
\* differ in history, payment flag and last response
TwinContexts(st) ==
    { [st EXCEPT !.conversation_history = h, !.payment_received = p, !.last_response = l] :
        h \in {<<>>, st.conversation_history \o <<"Yes it is">>},
        p \in BOOLEAN,
        l \in {Greeting, AcceptanceMessage, responses[1]} }

\* C7: the next node ProcessUserInput chooses is a function of turn_count,
\* user_frustration_level, the intent and the input text: sessions that
\* agree on the four get the same node, whatever their history, payment
\* flag and last response.
C7_RoutingDependsOnFourValues ==
    next_node = "ProcessUserInput"
    => \A text \in Texts, c \in Quiet :
          LET node == ProcessUserInputRun([state EXCEPT !.current_input = text], c).node
          IN  \A o \in TwinContexts(state), d \in {x \in Quiet : x.intent = c.intent} :
                 ProcessUserInputRun([o EXCEPT !.current_input = text], d).node = node

\* routing is about to run at the gate in a session that has paid
C7_Witness ==
    /\ next_node = "ProcessUserInput"
    /\ is_processing
    /\ state.payment_received
    /\ state.turn_count >= 8

\* five more inputs
FiveMore == [i \in 1..5 |-> "Yes it is"]

\* C8: when ResolutionNode runs with payment_received False and no payment
\* detected, last_response is the refusal at index len(conversation_history)
\* mod 5 (so a session whose history is longer by five gets the same text),
\* payment_received stays False, turn_count and user_frustration_level are
\* unchanged and the next node is WaitForInput.
C8_RefusalByHistoryLength ==
    [][\A t \in Tasks, c \in Outcomes :
          (/\ NodeReturned(t, c, "ResolutionNode")
           /\ ~state.payment_received
           /\ ~PaymentDetected(c))
          => /\ state'.last_response
                  = responses[(Len(state.conversation_history) % 5) + 1]
             /\ ResolutionNodeRun(
                    [state EXCEPT !.conversation_history = @ \o FiveMore], c
                  ).state.last_response = state'.last_response
             /\ ~state'.payment_received
             /\ state'.turn_count = state.turn_count
             /\ state'.user_frustration_level = state.user_frustration_level
             /\ next_node' = "WaitForInput"]_vars

\* a refusal has been returned after the rotation wrapped around
C8_Witness ==
    \E t \in Tasks :
        /\ task[t].pc = "ret"
        /\ task[t].result.node = "ResolutionNode"
        /\ task[t].result.response = responses[1]
        /\ Len(state.conversation_history) = 10
        /\ ~state.payment_received
        /\ next_node = "WaitForInput"

\* the ninth step of a session whose eight steps so far all completed a
\* turn, and that has not paid, has returned without a payment
EightTurnsThenOneMore(t) ==
    /\ task[t].pc = "ret"
    /\ ~task[t].result.raised
    /\ task[t].pre # <<>>
    /\ task[t].pre[1].turn_count = 8
    /\ Len(task[t].pre[1].conversation_history) = 8
    /\ ~task[t].pre[1].payment_received
    /\ metrics = [success_count |-> 9, error_count |-> 0]
    /\ ~state.payment_received

\* C9 as stated: for a session whose turn_count is 8 after eight completed
\* turns and that has not paid, the next input is routed to Resolution and
\* the refusal returned is the entry at index 8 mod 5 = 3.
C9_RefusalIndexThree ==
    \A t \in Tasks :
        EightTurnsThenOneMore(t)
        => /\ task[t].result.node = "ResolutionNode"
           /\ task[t].result.response = responses[(8 % 5) + 1]

\* C9 amended: ... the refusal returned is the entry at index 9 mod 5 = 4,
\* the history holding the ninth input when Resolution runs.
C9_RefusalIndexFour ==
    \A t \in Tasks :
        EightTurnsThenOneMore(t)
        => /\ task[t].result.node = "ResolutionNode"
           /\ task[t].result.response = responses[(9 % 5) + 1]

C9_Witness == \E t \in Tasks : EightTurnsThenOneMore(t)

\* C10: when ResolutionNode runs and a payment is detected or
\* payment_received is already True, that run sets payment_received, sets
\* turn_count and user_frustration_level to 0, sets last_response to the
\* acceptance message and returns SimpleContradictionNode.
C10_PaymentAccepted ==
    [][\A t \in Tasks, c \in Outcomes :
          (/\ NodeReturned(t, c, "ResolutionNode")
           /\ (PaymentDetected(c) \/ state.payment_received))
          => /\ state'.payment_received
             /\ state'.turn_count = 0
             /\ state'.user_frustration_level = 0
             /\ state'.last_response = AcceptanceMessage
             /\ next_node' = "SimpleContradictionNode"]_vars

\* Resolution has just accepted in a session that had paid before the step
C10_Witness ==
    \E t \in Tasks :
        /\ task[t].pc \in InFlight
        /\ task[t].pre[1].payment_received
        /\ task[t].pre[1].turn_count = 8
        /\ state.last_response = AcceptanceMessage
        /\ state.turn_count = 0
        /\ next_node = "SimpleContradictionNode"

\* the refusals of ResolutionNode
Refusals == {responses[i] : i \in 1..Len(responses)}

\* C11: while turn_count >= 8 and payment_received is False, no node that
\* calls the response generator is pending, so none runs; turn_count stays
\* at 8 in every transition but the one in which ResolutionNode detects a
\* payment; and a step that began in that condition and returns without a
\* payment having been detected returns a refusal.
C11_GateClosedUntilPayment ==
    [][(state.turn_count >= 8 /\ ~state.payment_received)
       => /\ next_node \notin ArguerNodes
          /\ \/ state'.turn_count = 8 /\ ~state'.payment_received
             \/ next_node = "ResolutionNode" /\ state'.payment_received
          /\ \A t \in Tasks :
                (/\ task[t].pc = "next3"
                 /\ task'[t].pc = "ret"
                 /\ ~task'[t].result.raised
                 /\ task[t].pre[1].turn_count >= 8
                 /\ ~task[t].pre[1].payment_received
                 /\ ~state'.payment_received)
                => task'[t].result.response \in Refusals]_vars

\* two inputs in a row were refused at the gate, the second one after a
\* step had failed
C11_Witness ==
    \E t \in Tasks :
        /\ task[t].pc = "ret"
        /\ ~task[t].result.raised
        /\ task[t].result.response \in Refusals
        /\ task[t].pre # <<>>
        /\ task[t].pre[1].turn_count = 8
        /\ ~task[t].pre[1].payment_received
        /\ task[t].pre[1].next_node # "WaitForInput"
        /\ state.turn_count = 8
        /\ ~state.payment_received
        /\ metrics.error_count = 1

\* a lookup of the session finds nothing: neither the session nor its timer
NotFound(session_id) ==
    /\ session_id \notin active_sessions
    /\ session_id \notin DOMAIN session_timeouts

\* C12: a registered session on which neither reset_timeout nor
\* cleanup_session has been called for max_session_minutes is removed from
\* active_sessions and its entry from session_timeouts, unless it is touched
\* after all before its timer task runs.
C12_IdleSessionExpires ==
    \A session_id \in SessionIds :
        (session_id \in active_sessions
            /\ idle_minutes[session_id] = max_session_minutes)
        ~> (\/ NotFound(session_id)
            \/ (session_id \in active_sessions
                  /\ idle_minutes[session_id] < max_session_minutes))

\* the timer of a registered session has run out and removed it
C12_Witness ==
    \E session_id \in SessionIds :
        /\ last_call = [op |-> "cleanup_after_timeout",
                        session_id |-> session_id, found |-> TRUE]
        /\ NotFound(session_id)

\* C13: a timer task that runs to its end is the current timer of a
\* registered session on which reset_timeout has not been called for
\* max_session_minutes (nor was it created later than that): no session is
\* removed by expiry earlier, and no task cancelled by reset_timeout or
\* cleanup_session, its session gone or its entry replaced, deletes anything.
C13_NoEarlyExpiry ==
    [][\A k \in TimerIds :
          (k \in DOMAIN timers /\ TimerExpires(k))
          => LET session_id == timers[k].session_id
             IN  /\ session_id \in active_sessions
                 /\ session_id \in DOMAIN session_timeouts
                 /\ session_timeouts[session_id] = k
                 /\ idle_minutes[session_id] = max_session_minutes
                 /\ age_minutes[session_id] >= max_session_minutes
                 /\ session_id \notin active_sessions'
                 /\ session_id \notin DOMAIN session_timeouts']_vars

\* a session touched before its deadline is registered after that deadline,
\* and its timer runs out a full period after the touch
C13_Witness ==
    \E session_id \in active_sessions :
        /\ age_minutes[session_id] > max_session_minutes
        /\ idle_minutes[session_id] = max_session_minutes
        /\ last_call = [op |-> "reset_timeout", session_id |-> session_id,
                        found |-> TRUE]
        /\ timers[session_timeouts[session_id]].left = 0

\* C14: reset_timeout on an id that is not registered (never created,
\* cleaned up or expired) changes nothing: it makes no timer and no entry
\* and does not register the id again.
C14_ResetOfUnregisteredIsNoOp ==
    [][\A session_id \in SessionIds :
          (session_id \notin active_sessions /\ ResetTimeout(session_id))
          => UNCHANGED <<active_sessions, session_timeouts, timers, issued>>]_vars

\* reset_timeout has been called on a session that is gone, while another
\* session is registered
C14_Witness ==
    \E session_id \in issued :
        /\ last_call = [op |-> "reset_timeout", session_id |-> session_id,
                        found |-> FALSE]
        /\ NotFound(session_id)
        /\ active_sessions # {}

\* the timer tasks pending for a session
PendingTimers(session_id) ==
    {k \in DOMAIN timers : timers[k].session_id = session_id}

\* C15: cleanup_session removes the session and its timer entry and leaves
\* no timer task pending for it; called on a session that is not registered
\* (a second call, or a call after expiry) it changes nothing.
C15_CleanupIsImmediateAndIdempotent ==
    [][\A session_id \in SessionIds :
          CleanupSession(session_id)
          => /\ NotFound(session_id)'
             /\ PendingTimers(session_id)' = {}
             /\ session_id \notin active_sessions
                  => UNCHANGED <<active_sessions, session_timeouts, timers, issued>>]_vars

\* cleanup_session has been called on a session that was already gone
C15_Witness ==
    \E session_id \in issued :
        /\ last_call = [op |-> "cleanup_session", session_id |-> session_id,
                        found |-> FALSE]
        /\ NotFound(session_id)
        /\ PendingTimers(session_id) = {}

\* the handler takes the next message out of the websocket
Received == inbox # <<>> /\ inbox' = Tail(inbox)

\* C16: once the timer of a session has run out and removed it from the
\* registry, an input that arrives for it is not run through the graph: no
\* step is begun for it and the context stays as it was.
C16_ExpiredSessionTakesNoInput ==
    [][(Received /\ Head(inbox).after_expiry)
       => /\ task'[Handler].pc \notin InFlight
          /\ state' = state
          /\ ~is_processing']_vars

\* C17: an input sent while a step of the session is in flight is answered
\* with the ConcurrencyError rejection and mutates nothing of the session.
C17_InputDuringStepRejected ==
    [][(Received /\ Head(inbox).during_step)
       => /\ task'[Handler].pc = "ret"
          /\ task'[Handler].result = RejectionResult
          /\ UNCHANGED <<state, next_node, metrics>>]_vars

\* C18: payment_received, once True, is True in every later state.
C18_PaymentStable ==
    [][state.payment_received => state'.payment_received]_vars

\* a session that has paid is at the gate again, eight turns later
C18_Witness ==
    /\ state.payment_received
    /\ state.turn_count = 8
    /\ next_node = "ResolutionNode"

\* C19: turn_count and user_frustration_level are never negative, and
\* neither decreases in any transition but the run of ResolutionNode that
\* accepts payment, which sets both to 0.
C19_CountersNeverDecrease ==
    [][/\ state'.turn_count >= 0
       /\ state'.user_frustration_level >= 0
       /\ (\/ state'.turn_count < state.turn_count
           \/ state'.user_frustration_level < state.user_frustration_level)
          => /\ next_node = "ResolutionNode"
             /\ state'.payment_received
             /\ state'.last_response = AcceptanceMessage
             /\ next_node' = "SimpleContradictionNode"
             /\ state'.turn_count = 0
             /\ state'.user_frustration_level = 0]_vars

\* an acceptance has just put both counters, which were positive, back to 0
C19_Witness ==
    \E t \in Tasks :
        /\ task[t].pc \in InFlight
        /\ task[t].pre[1].turn_count = 8
        /\ task[t].pre[1].user_frustration_level >= 3
        /\ ~task[t].pre[1].payment_received
        /\ state.payment_received
        /\ state.turn_count = 0
        /\ state.user_frustration_level = 0

IsPrefix(s, t) == Len(s) <= Len(t) /\ SubSeq(t, 1, Len(s)) = s

\* C20: in every transition the conversation_history before it is a prefix
\* of the conversation_history after it.
C20_HistoryAppendOnly ==
    [][IsPrefix(state.conversation_history, state'.conversation_history)]_vars

\* two different inputs have been appended, in the order they were given
C20_Witness ==
    state.conversation_history = <<"Yes it is", "Not an ARGUMENT">>

\* C21 as stated: every run of ProcessUserInput that classifies the input
\* ARGUMENTATIVE adds exactly one to user_frustration_level, whatever the
\* turn_count and the payment state.
C21_ArgumentativeAlwaysCounts ==
    [][\A t \in Tasks, c \in Outcomes :
          (c.intent = ARGUMENTATIVE /\ NodeReturned(t, c, "ProcessUserInput"))
          => state'.user_frustration_level = state.user_frustration_level + 1]_vars

\* C21 amended: a run of ProcessUserInput that classifies the input
\* ARGUMENTATIVE adds exactly one to user_frustration_level when turn_count
\* is below 8, whatever the payment state, and leaves it as it was when
\* turn_count is 8 or more (the gate is tested first).
C21_ArgumentativeCountsBelowGate ==
    [][\A t \in Tasks, c \in Outcomes :
          (c.intent = ARGUMENTATIVE /\ NodeReturned(t, c, "ProcessUserInput"))
          => state'.user_frustration_level =
                IF state.turn_count < 8
                THEN state.user_frustration_level + 1
                ELSE state.user_frustration_level]_vars

\* a session that has paid has had an argumentative input counted
C21_Witness ==
    \E t \in Tasks :
        /\ task[t].pc = "next3"
        /\ task[t].pre[1].payment_received
        /\ task[t].pre[1].next_node = "WaitForInput"
        /\ state.user_frustration_level = task[t].pre[1].user_frustration_level + 1

\* C23: a message that does not parse as JSON, or that has no content, is
\* answered with an error without process_input being called: the context,
\* the pending node, the flag and the counters stay as they were, and for the
\* message that does not parse the timer is not reset either.
C23_MalformedInputRejected ==
    [][(Received /\ (~Head(inbox).json \/ ~Head(inbox).has_content))
       => /\ task'[Handler].pc = "ret"
          /\ task'[Handler].result.node = "error"
          /\ UNCHANGED <<state, next_node, is_processing, metrics>>
          /\ ~Head(inbox).json
               => /\ task'[Handler].result = InvalidFormatResult
                  /\ UNCHANGED <<active_sessions, manager>>]_vars

\* the half of C23 about the message that does not parse
InvalidJsonRejected ==
    [][(Received /\ ~Head(inbox).json)
       => /\ task'[Handler].pc = "ret"
          /\ task'[Handler].result = InvalidFormatResult
          /\ UNCHANGED <<state, next_node, is_processing, metrics>>
          /\ UNCHANGED <<active_sessions, manager>>]_vars

\* the callers whose accepted input has not had its response sent yet
AwaitingResponse ==
    {t \in Tasks : \/ task[t].pc \in InFlight
                   \/ task[t].pc = "ret" /\ task[t].result # RejectionResult}

\* C22: on a connection an input is accepted only when the response to every
\* input accepted before it has been sent, so the responses go out in the
\* order of the inputs; and the response a step returns was written by a
\* response node that ran in that step, for the input of that step.
C22_ResponsesInInputOrder ==
    [][\A t \in Tasks :
          /\ (task[t].pc = "idle" /\ task'[t].pc = "next1")
              => /\ AwaitingResponse = {}
                 /\ state'.current_input = Head(inbox).content
          /\ (task[t].pc \in InFlight /\ task'[t].pc \in InFlight \cup {"ret"})
              => state'.current_input = state.current_input
          /\ (task[t].pc = "next3" /\ task'[t].pc = "ret" /\ ~task'[t].result.raised)
              => /\ task'[t].wrote \in ResponseNodes
                 /\ task'[t].result.response = state'.last_response]_vars

\* two inputs have been accepted and answered, one after the other
C22_Witness ==
    /\ task[Handler].pc = "ret"
    /\ ~task[Handler].result.raised
    /\ task[Handler].wrote \in ResponseNodes
    /\ metrics = [success_count |-> 2, error_count |-> 0]
    /\ inbox = <<>>

\* the collaborators behaving as c, but for a payment detector that is not
\* there: it detects nothing and does not raise
WithoutDetector(c) ==
    [c EXCEPT !.paid = FALSE,
              !.raises = IF @ = "did_user_pay" THEN None ELSE @]

\* C24: the payment detector is called only by ResolutionNode and only for
\* an input classified TRANSACTIONAL: the run of every other node, and of
\* ResolutionNode for every other intent, is what it would be without the
\* detector (no payment detected, no failure of the detector).
C24_DetectorOnlyForTransactionalAtResolution ==
    \A t \in Tasks :
        task[t].pc \in InFlight
        => \A c \in Outcomes :
              (next_node # "ResolutionNode" \/ c.intent # TRANSACTIONAL)
              => GraphRunNext(next_node, state, c)
                   = GraphRunNext(next_node, state, WithoutDetector(c))

\* ResolutionNode has detected the payment of a session that argued without
\* frustration: it was unpaid when the step began
C24_Witness ==
    \E t \in Tasks :
        /\ task[t].pc \in InFlight
        /\ task[t].wrote = "ResolutionNode"
        /\ ~task[t].pre[1].payment_received
        /\ task[t].pre[1].user_frustration_level = 0
        /\ state.payment_received
        /\ state.last_response = AcceptanceMessage

\* what belongs to a session: the fields of its GraphSession
SessionFields(session_id) ==
    IF session_id = SessionId THEN <<state, next_node, is_processing>>
    ELSE IF session_id \in DOMAIN peer
         THEN <<peer[session_id].state, peer[session_id].next_node,
                peer[session_id].is_processing>>
         ELSE <<>>

\* what belongs to a session: its timer task and the sleep it has left
SessionTimer(session_id) ==
    IF /\ session_id \in DOMAIN session_timeouts
       /\ session_timeouts[session_id] \in DOMAIN timers
    THEN <<session_timeouts[session_id],
           timers[session_timeouts[session_id]].left>>
    ELSE <<>>

\* a session as the program holds it
OfSession(session_id) ==
    <<SessionFields(session_id), SessionTimer(session_id),
      session_id \in active_sessions, session_id \in DOMAIN session_timeouts>>

\* C25: sessions are independent.  But for the passing of time, which every
\* timer sees, a step that changes anything of one session (its state, its
\* pending node, is_processing, its timer, its registration) changes nothing
\* of any other session.
C25_SessionsIndependent ==
    [][~MinutePasses
         => \A a, b \in SessionIds :
               (a # b /\ OfSession(a)' # OfSession(a))
               => OfSession(b)' = OfSession(b)]_vars

\* both sessions are registered, a step of the first is in flight, and a
\* step of the second has failed
C25_Witness ==
    /\ SessionIds \subseteq active_sessions
    /\ is_processing
    /\ \E session_id \in PeerIds :
          /\ session_id \in DOMAIN peer
          /\ peer[session_id].last = "raised"

\* C26: EntryNode runs once per session, in the first accepted call and
\* before any other node: until then the context is as constructed, and no
\* later call or next() starts the graph again or leaves EntryNode pending.
\* No node ends the graph: when no collaborator fails every next() returns
\* a node of the graph, so the session is always ready for another input.
C26_EntryOnceAndNoEnd ==
    [][/\ next_node = None => state = ArgumentClinicContext
       /\ (next_node = None /\ next_node' # None)
            => /\ \E t \in Tasks : task[t].pc = "idle" /\ task'[t].pc = "next1"
               /\ next_node' = "WaitForInput"
               /\ state'.last_response = Greeting
       /\ next_node # None
            => /\ next_node' \in Nodes \ {"EntryNode"}
               /\ \A t \in Tasks :
                     (task[t].pc = "idle" /\ task'[t].pc = "next1")
                     => /\ next_node' = next_node
                        /\ state'.last_response = state.last_response
                        /\ state'.turn_count = state.turn_count
       /\ \A t \in Tasks :
             task[t].pc \in InFlight
             => \A c \in Quiet :
                   /\ ~GraphRunNext(next_node, state, c).raised
                   /\ GraphRunNext(next_node, state, c).node \in Nodes \ {"EntryNode"}]_vars

\* a call is accepted by a session whose graph was started by an earlier
\* call, has taken a payment and has had a step fail
C26_Witness ==
    \E t \in Tasks :
        /\ task[t].pc = "next1"
        /\ state.payment_received
        /\ metrics.error_count > 0
        /\ state.last_response # Greeting

\* C27: the timer of a session expiring while a step of it is in flight
\* removes the session from the registry and leaves the step alone: the
\* step can go on, returns the response it wrote and clears is_processing.
\* reset_timeout (the next message) and cleanup_session (the disconnect)
\* on the removed id change nothing in the registry.
C27_ExpiryDuringStep ==
    [][/\ (task[Handler].pc \in InFlight /\ \E k \in TimerIds : TimerExpires(k))
            => /\ SessionId \notin active_sessions'
               /\ SessionId \notin DOMAIN session_timeouts'
               /\ is_processing'
               /\ UNCHANGED <<state, next_node, is_processing, task>>
       /\ (NotFound(SessionId) /\ task[Handler].pc \in InFlight)
            => /\ is_processing
               /\ \A c \in Quiet : ~GraphRunNext(next_node, state, c).raised
               /\ ENABLED (\E c \in Quiet : Next123(Handler, c, 0, MaxHandlerFailures))
       /\ (NotFound(SessionId) /\ task[Handler].pc = "next3"
                               /\ task'[Handler].pc = "ret")
            => /\ ~is_processing'
               /\ ~task'[Handler].result.raised
                    => task'[Handler].result.response = state'.last_response
       /\ (NotFound(SessionId) /\ (Received \/ Disconnect(Handler)))
            => UNCHANGED <<active_sessions, session_timeouts, timers>>]_vars

\* the timer expired after the handler took the message, and the step has
\* returned its response since
C27_Witness ==
    /\ last_call = [op |-> "cleanup_after_timeout", session_id |-> SessionId,
                    found |-> TRUE]
    /\ task[Handler].pc = "ret"
    /\ ~task[Handler].result.raised
    /\ task[Handler].result.response = state.last_response
    /\ task[Handler].wrote \in ResponseNodes
    /\ ~is_processing

\* C28: the node name a successful step returns is the name of the response
\* node that ran in that step and wrote the returned response: one of
\* SimpleContradictionNode, ArgumentationNode, MetaCommentaryNode,
\* ResolutionNode.
C28_ReturnedNodeIsResponseNode ==
    \A t \in Tasks :
        (/\ task[t].pc = "ret"
         /\ ~task[t].result.raised
         /\ task[t].result.node \notin {"ConcurrencyError", "error"})
        => /\ task[t].result.node \in ResponseNodes
           /\ task[t].result.node = task[t].wrote

\* C29: once the connection has ended, its session is gone: the id is in
\* neither active_sessions nor session_timeouts and no timer task for it is
\* pending.
C29_SessionRemovedWithConnection ==
    connection = "closed"
    => /\ NotFound(SessionId)
       /\ PendingTimers(SessionId) = {}

\* the client disconnected after a conversation, while the session was
\* registered and its timer running
C29_Witness ==
    /\ connection = "closed"
    /\ last_call = [op |-> "cleanup_session", session_id |-> SessionId,
                    found |-> TRUE]
    /\ state.turn_count > 0
    /\ NotFound(SessionId)

\* SessionManager.get_active_count
get_active_count == Cardinality(active_sessions)

\* C30: create_session registers a new session under an id not used before,
\* its fields at their defaults (turn_count 0, user_frustration_level 0,
\* payment_received False, conversation_history empty, is_processing False),
\* with exactly one timer task pending for it, set to max_session_minutes,
\* and the active count goes up by one.
C30_CreateSession ==
    [][\A session_id \in SessionIds :
          CreateSession(session_id)
          => /\ session_id \notin issued
             /\ session_id \notin active_sessions
             /\ session_id \in active_sessions'
             /\ peer'[session_id].state.turn_count = 0
             /\ peer'[session_id].state.user_frustration_level = 0
             /\ ~peer'[session_id].state.payment_received
             /\ peer'[session_id].state.conversation_history = <<>>
             /\ ~peer'[session_id].is_processing
             /\ session_id \in DOMAIN session_timeouts'
             /\ {k \in DOMAIN timers' : timers'[k].session_id = session_id}
                  = {session_timeouts'[session_id]}
             /\ timers'[session_timeouts'[session_id]].left = max_session_minutes
             /\ get_active_count' = get_active_count + 1]_vars

\* a second session has been created minutes after the first, which is
\* still registered
C30_Witness ==
    /\ last_call.op = "create_session"
    /\ get_active_count = 2
    /\ \E session_id \in SessionIds :
          /\ session_id # last_call.session_id
          /\ idle_minutes[session_id] > 0
    /\ DOMAIN peer = SessionIds

\* the step began on a session as constructed: nothing in its history
NewSessionStep(t) ==
    /\ task[t].pre # <<>>
    /\ task[t].pre[1].conversation_history = <<>>
    /\ task[t].pre[1].turn_count = 0
    /\ task[t].pre[1].user_frustration_level = 0

\* C31: below the gate, routing an ARGUMENTATIVE input adds one to
\* user_frustration_level and goes to ArgumentationNode iff turn_count >= 3
\* and the level after the increment is >= 3, otherwise to
\* SimpleContradictionNode.  The first input of a new session, classified
\* ARGUMENTATIVE, ends its step with level 1, turn_count 1 and node
\* SimpleContradictionNode; turn_count 3 with level 3 goes to
\* ArgumentationNode.
C31_ArgumentativeRouting ==
    [][\A t \in Tasks :
          /\ \A c \in Outcomes :
                (/\ state.turn_count < 8
                 /\ c.intent = ARGUMENTATIVE
                 /\ NodeReturned(t, c, "ProcessUserInput"))
                => /\ state'.user_frustration_level = state.user_frustration_level + 1
                   /\ state'.turn_count = state.turn_count
                   /\ next_node' = IF /\ state.turn_count >= 3
                                      /\ state.user_frustration_level + 1 >= 3
                                   THEN "ArgumentationNode"
                                   ELSE "SimpleContradictionNode"
                   /\ (state.turn_count = 3 /\ state.user_frustration_level = 3)
                        => next_node' = "ArgumentationNode"
                   /\ NewSessionStep(t)
                        => /\ state'.user_frustration_level = 1
                           /\ next_node' = "SimpleContradictionNode"
          /\ (/\ NewSessionStep(t)
              /\ task[t].pc = "next3" /\ task'[t].pc = "ret"
              /\ ~task'[t].result.raised
              /\ state'.user_frustration_level = 1)
             => /\ state'.turn_count = 1
                /\ task'[t].result.node = "SimpleContradictionNode"]_vars

\* routing has just sent a third-turn input to ArgumentationNode, the
\* increment having brought the level to three
C31_Witness ==
    \E t \in Tasks :
        /\ task[t].pc = "next3"
        /\ task[t].current_node = "ArgumentationNode"
        /\ next_node = "ArgumentationNode"
        /\ state.user_frustration_level = 3
        /\ task[t].pre[1].user_frustration_level = 2
        /\ state.turn_count >= 3

\* C32: below the gate, routing goes to MetaCommentaryNode iff the intent
\* is META and the input contains "argument" in any case of letters ("Not
\* an ARGUMENT" does, "Yes it is" does not); a META input without it and
\* every TRANSACTIONAL or CONFUSED input go to SimpleContradictionNode, and
\* none of these changes user_frustration_level.
C32_MetaRouting ==
    [][\A t \in Tasks, c \in Outcomes :
          (/\ state.turn_count < 8
           /\ c.intent # ARGUMENTATIVE
           /\ NodeReturned(t, c, "ProcessUserInput"))
          => /\ state'.user_frustration_level = state.user_frustration_level
             /\ next_node' =
                   IF c.intent = META /\ state.current_input = "Not an ARGUMENT"
                   THEN "MetaCommentaryNode"
                   ELSE "SimpleContradictionNode"
             /\ (c.intent = META /\ state.current_input = "Yes it is")
                  => next_node' = "SimpleContradictionNode"]_vars

\* routing has sent "Not an ARGUMENT", classified META, to
\* MetaCommentaryNode, after "Yes it is" was answered
C32_Witness ==
    \E t \in Tasks :
        /\ task[t].pc = "next3"
        /\ task[t].current_node = "MetaCommentaryNode"
        /\ state.current_input = "Not an ARGUMENT"
        /\ state.conversation_history = <<"Yes it is", "Not an ARGUMENT">>
        /\ state.user_frustration_level = 0

\* turn_count node by node: an arguer node that returns adds one, and only
\* after the arguer has answered (a run that raises adds nothing); a
\* refusal of ResolutionNode leaves it, an acceptance sets it to 0; no
\* other node changes it
TurnCountByNode ==
    [][\A t \in Tasks, c \in Outcomes :
          (\E ms \in ElapsedMs : Next123(t, c, ms, MaxConnFailures))
          => LET r == GraphRunNext(next_node, state, c)
             IN  IF r.raised THEN state'.turn_count = state.turn_count
                 ELSE IF next_node \in ArguerNodes
                 THEN state'.turn_count = state.turn_count + 1
                 ELSE IF next_node = "ResolutionNode"
                 THEN IF state'.last_response = AcceptanceMessage
                      THEN state'.turn_count = 0
                      ELSE state'.turn_count = state.turn_count
                 ELSE state'.turn_count = state.turn_count]_vars

\* the step of task t has returned a response
Succeeded(t) ==
    /\ task[t].pc = "ret"
    /\ ~task[t].result.raised
    /\ task[t].result.node \notin {"ConcurrencyError", "error"}

TurnCountWithoutResolution ==
    \A t \in Tasks :
        (/\ Succeeded(t)
         /\ "ResolutionNode" \notin {task[t].pre[1].next_node, task[t].routed})
        => state.turn_count = task[t].pre[1].turn_count + 1

\* C34: every successful step appends its input to conversation_history
\* exactly once, and before the input is classified, routed or answered:
\* when ProcessUserInput or a response node runs in a step, and when the
\* step returns, the history is the history the step began with plus its
\* input.
C34_InputAppendedOnceAndFirst ==
    [][\A t \in Tasks :
          /\ (/\ task[t].pc \in InFlight
              /\ next_node \in {"ProcessUserInput"} \cup ResponseNodes
              /\ task'[t].pc # task[t].pc)
             => state.conversation_history
                  = Append(task[t].pre[1].conversation_history, state.current_input)
          /\ (/\ task[t].pc = "next3" /\ task'[t].pc = "ret"
              /\ ~task'[t].result.raised)
             => state'.conversation_history
                  = Append(task[t].pre[1].conversation_history, state.current_input)]_vars

\* C35: a response node runs in a step only after ProcessUserInput has run
\* in that step, on the input of that step, and has selected that node.
C35_ResponseNodeIsTheRoutedNode ==
    [][\A t \in Tasks :
          (/\ task[t].pc \in InFlight
           /\ next_node \in ResponseNodes
           /\ task'[t].pc # task[t].pc)
          => task[t].routed = next_node]_vars

\* C36: once payment_received is True no refusal is produced again: the
\* last response of a paid session is never a refusal, and whenever
\* ResolutionNode runs again it accepts, for every intent and without a
\* newly detected payment, and resets turn_count and
\* user_frustration_level.
C36_NoRefusalAfterPayment ==
    [][/\ state.payment_received
            => state.last_response \notin Refusals \cup {DingMessage}
       /\ \A t \in Tasks, c \in Outcomes :
             (state.payment_received /\ NodeReturned(t, c, "ResolutionNode"))
             => /\ state'.last_response = AcceptanceMessage
                /\ state'.turn_count = 0
                /\ state'.user_frustration_level = 0
                /\ state'.payment_received
                /\ \A d \in Quiet :
                      LET r == ResolutionNodeRun(state, d)
                      IN  /\ ~r.raised
                          /\ r.state.last_response = AcceptanceMessage
                          /\ r.state.turn_count = 0]_vars

\* ResolutionNode has run again on a session that had paid and had been
\* frustrated since: it accepted and reset the counters
C36_Witness ==
    \E t \in Tasks :
        /\ task[t].pc \in InFlight
        /\ task[t].wrote = "ResolutionNode"
        /\ task[t].pre[1].payment_received
        /\ task[t].pre[1].user_frustration_level > 0
        /\ state.last_response = AcceptanceMessage
        /\ state.turn_count = 0
        /\ state.user_frustration_level = 0

\* C37: the handler resets the inactivity timer once for every message that
\* parses, in the step that takes the message and before it is dispatched,
\* whatever its type: afterwards a registered session has one pending timer
\* with max_session_minutes to sleep.  A message that does not parse resets
\* nothing, and no later step of the dispatch (the step of the graph, its
\* failure, the reply) touches the timer again.
C37_TimerResetPerParsedMessage ==
    [][/\ (Received /\ Head(inbox).json)
            => /\ last_call' = [op |-> "reset_timeout", session_id |-> SessionId,
                                found |-> SessionId \in active_sessions]
               /\ SessionId \in DOMAIN session_timeouts
                    => /\ SessionId \in DOMAIN session_timeouts'
                       /\ {k \in DOMAIN timers' : timers'[k].session_id = SessionId}
                            = {session_timeouts'[SessionId]}
                       /\ timers'[session_timeouts'[SessionId]].left
                            = max_session_minutes
                       /\ idle_minutes'[SessionId] = 0
       /\ (Received /\ ~Head(inbox).json)
            => UNCHANGED <<active_sessions, manager>>
       /\ (~Received /\ (task' # task \/ inbox' # inbox))
            => UNCHANGED <<active_sessions, manager>>]_vars

\* minutes after the session was created a message of a type that is not
\* known has been taken: the error is on its way and the timer starts anew
C37_Witness ==
    /\ task[Handler].pc = "ret"
    /\ task[Handler].result = UnknownTypeResult
    /\ last_call = [op |-> "reset_timeout", session_id |-> SessionId, found |-> TRUE]
    /\ age_minutes[SessionId] > 0
    /\ idle_minutes[SessionId] = 0
    /\ timers[session_timeouts[SessionId]].left = max_session_minutes

\* C38: in every reachable state of a session 0 <= turn_count <= 8, and a
\* response node that increments turn_count (SimpleContradictionNode,
\* ArgumentationNode, MetaCommentaryNode) only ever runs when turn_count < 8,
\* whether it was selected by the routing of this step, is pending from an
\* earlier step, or follows an accepted payment.
C38_TurnCountWithinGate ==
    [][/\ state.turn_count \in 0..8
       /\ state'.turn_count \in 0..8
       /\ \A t \in Tasks, c \in Outcomes, node \in ArguerNodes :
             NodeReturned(t, c, node)
             => /\ state.turn_count < 8
                /\ state'.turn_count = state.turn_count + 1]_vars

\* the eighth turn has been counted: an arguing node ran at turn_count 7
C38_Witness ==
    \E t \in Tasks :
        /\ task[t].pc \in InFlight
        /\ task[t].wrote \in ArguerNodes
        /\ state.turn_count = 8

\* C39: after any interleaving of create_session, reset_timeout,
\* cleanup_session and timer expiry, active_sessions and session_timeouts
\* have the same keys, every registered session has exactly one pending
\* timer (the one session_timeouts names), no timer is pending for a session
\* that is not registered, and get_active_count is the number of registered
\* sessions, which is the number of sessions with a pending timer.
C39_RegistryConsistent ==
    /\ DOMAIN session_timeouts = active_sessions
    /\ active_sessions \subseteq issued
    /\ \A session_id \in SessionIds :
          PendingTimers(session_id) =
             IF session_id \in active_sessions
             THEN {session_timeouts[session_id]}
             ELSE {}
    /\ get_active_count = Cardinality(DOMAIN session_timeouts)
    /\ get_active_count = Cardinality(DOMAIN timers)

\* both sessions were created; one has expired, the other had its timer
\* reset and is still registered with its one timer
C39_Witness ==
    /\ issued = SessionIds
    /\ last_call.op = "cleanup_after_timeout"
    /\ \E session_id \in active_sessions :
          /\ active_sessions = {session_id}
          /\ last_call.session_id # session_id
          /\ idle_minutes[session_id] < age_minutes[session_id]
          /\ DOMAIN timers = {session_timeouts[session_id]}

\* the step in which the accepted call of task t finishes
Finishes(t) == task[t].pc \in InFlight /\ task'[t].pc = "ret"

\* C40: the step that finishes an accepted process_input call adds exactly
\* one to exactly one counter: to success_count when the call returns, to
\* error_count when it raises.  A rejected call, and every other step, leaves
\* both counters as they are, so success_count + error_count counts the
\* finished accepted calls.
C40_OneCountPerAcceptedCall ==
    [][/\ \A t \in Tasks :
             /\ (Finishes(t) /\ task'[t].result.raised)
                => /\ metrics'.error_count = metrics.error_count + 1
                   /\ metrics'.success_count = metrics.success_count
             /\ (Finishes(t) /\ ~task'[t].result.raised)
                => /\ metrics'.success_count = metrics.success_count + 1
                   /\ metrics'.error_count = metrics.error_count
                   /\ task'[t].result.node # "ConcurrencyError"
             /\ (task[t].pc = "idle" /\ task'[t].pc = "ret")
                => /\ is_processing
                   /\ task'[t].result = RejectionResult
                   /\ metrics' = metrics
       /\ (\A t \in Tasks : ~Finishes(t)) => metrics' = metrics
       /\ Cardinality({t \in Tasks : Finishes(t)}) <= 1]_vars

\* one accepted call has raised, another has returned, and a call made
\* while the second was in flight was rejected: one error and one success
\* are counted
C40_Witness ==
    /\ metrics = [success_count |-> 1, error_count |-> 1]
    /\ \E t \in Tasks :
          /\ task[t].pc = "ret"
          /\ task[t].result = RejectionResult
    /\ \E t \in Tasks :
          /\ task[t].pc = "ret"
          /\ ~task[t].result.raised
          /\ task[t].result.node # "ConcurrencyError"

====
